---- MODULE Spec2Model ----
(***************************************************************************)
(* Model of the nextjs-svgsprite repository.                               *)
(*                                                                         *)
(*   Spec       the client-side sprite loader (lib/sprite-loader.ts) as    *)
(*              used by IconDynamic, together with the two sprite routes   *)
(*              that answer its fetches.                                   *)
(*   BuildSpec  the build script (scripts/build-sprite.js): scan,          *)
(*              duplicate check, rename, grouping, sprite and type output. *)
(*                                                                         *)
(* Text is modelled as a sequence of tokens: a document is a sequence of   *)
(* markup tokens, a name is a sequence of one-character strings.           *)
(***************************************************************************)
EXTENDS Naturals, Sequences, FiniteSets, TLC

VARIABLES
    spriteCache,         \* Map namespace -> { version, content, promise? }
    sessionStorageKeys,  \* Set of tracked session-storage keys
    sessionStorage,      \* window.sessionStorage: key -> stored item
    fetches,             \* the fetches issued by this page: id -> state
    calls,               \* the loadSprite invocations of this page
    containers,          \* document: namespace -> innerHTML of its container
    body,                \* document.body: the containers in appendChild order
    lastOp               \* history: the operation that produced this state

VARIABLES
    svgDirExists,        \* whether the svg-icons directory exists
    tree,                \* the svg-icons directory, entries in readdir order
    pc,                  \* position of buildSprite
    allSvgFiles,         \* the scanned files (after the rename step: renamedFiles)
    namespaceGroups,     \* result of groupByNamespace, in insertion order
    nsDone,              \* number of namespace groups already processed
    allIconNames,        \* names pushed while the sprites are assembled
    publicDir,           \* the output directory: set of [name, symbols]
    typesFile,           \* the generated type listing
    report,              \* duplicatesFound as printed by checkForDuplicates
    error,               \* what buildSprite threw, if it threw
    renamed,             \* original names of the source files renamed
    buildNo              \* which run of the build script this is

VARIABLES
    nameIn,              \* a name handed to normalizeIconName
    nameOut,             \* what normalizeIconName(nameIn) did
    nameAgain            \* what normalizeIconName did with its own result

VARIABLES
    watcherInitialized,  \* module flag of the plugin
    watchers,            \* number of fs.watch registrations of this process
    svgDirPath,          \* whether options.svgDir exists on disk
    hookRuns,            \* how often the webpack hook has run
    rebuilds,            \* how often the watcher callback has rebuilt
    hookLog              \* history: what the last hook run or event did

lvars == <<spriteCache, sessionStorageKeys, sessionStorage, fetches, calls,
           containers, body, lastOp>>
bvars == <<svgDirExists, tree, pc, allSvgFiles, namespaceGroups, nsDone, allIconNames,
           publicDir, typesFile, report, error, renamed, buildNo>>
nvars == <<nameIn, nameOut, nameAgain>>
pvars == <<watcherInitialized, watchers, svgDirPath, hookRuns, rebuilds, hookLog>>
vars == <<lvars, bvars, nvars, pvars>>

----------------------------------------------------------------------------
(* Bounds of the loader model *)
MaxFetches == 2
MaxCalls == 2

FetchIds == 1..MaxFetches
CallIds == 1..MaxCalls
Namespaces == {"default", "social"}

----------------------------------------------------------------------------
(* Constants of lib/sprite-loader.ts *)
SPRITE_VERSION == "1.0.0"
CACHE_KEY_PREFIX == "nextjs-svgsprite"
\* the stamp of a deployment before SPRITE_VERSION was bumped
OLD_VERSION == "0.9.0"

(* Documents, as token sequences *)
Sprite(ns) == <<"<svg", ns, "</svg>">>
PaddedSprite(ns) == <<" ">> \o Sprite(ns) \o <<" ">>
OldSprite(ns) == <<"<svg", "old", ns, "</svg>">>
HtmlPage == <<"<html>", "error", "</html>">>
EmptyText == <<>>
EMPTY_SPRITE == <<"<svg", "</svg>">>

Truthy(content) == content # <<>>

NoPromise == 0
NoEntry == [present |-> FALSE, version |-> "", content |-> <<>>, promise |-> NoPromise]
Entry(v, c, p) == [present |-> TRUE, version |-> v, content |-> c, promise |-> p]

getCacheKey(namespace) == <<CACHE_KEY_PREFIX, namespace>>

\* keys of other code that shares window.sessionStorage
ForeignKeys == {<<"other-app", "token">>, <<CACHE_KEY_PREFIX, "theme">>}
Keys == {getCacheKey(ns) : ns \in Namespaces} \cup ForeignKeys

NoItem == [kind |-> "absent", version |-> "", content |-> <<>>]
ForeignItem == [kind |-> "text", version |-> "", content |-> <<"dark">>]
\* JSON.stringify({ version, content, timestamp }): timestamp is never read
JsonStringify(v, c) == [kind |-> "json", version |-> v, content |-> c]
\* JSON.parse throws on text that is not JSON
JsonParses(item) == item.kind = "json"

----------------------------------------------------------------------------
(* String helpers used by isValidSvgContent *)
RECURSIVE TrimStart(_)
TrimStart(s) == IF s # <<>> /\ Head(s) = " " THEN TrimStart(Tail(s)) ELSE s

RECURSIVE TrimEnd(_)
TrimEnd(s) ==
    IF s # <<>> /\ s[Len(s)] = " " THEN TrimEnd(SubSeq(s, 1, Len(s) - 1)) ELSE s

Trim(s) == TrimEnd(TrimStart(s))
StartsWith(s, tok) == s # <<>> /\ Head(s) = tok
Includes(s, tok) == \E i \in 1..Len(s) : s[i] = tok

isValidSvgContent(content) ==
    StartsWith(Trim(content), "<svg") /\ Includes(content, "</svg>")

----------------------------------------------------------------------------
(* Session storage *)

\* a reader that trusts whatever version it finds
loadFromSessionStorage_NoVersionCheck(namespace) ==
    LET cacheKey == getCacheKey(namespace)
        cached == sessionStorage[cacheKey]
    IN  IF cached.kind = "absent"
        THEN [result |-> <<>>, outcome |-> "absent",
              storage |-> sessionStorage, keys |-> sessionStorageKeys]
        ELSE IF ~JsonParses(cached)
        THEN [result |-> <<>>, outcome |-> "corrupt",
              storage |-> sessionStorage, keys |-> sessionStorageKeys]
        ELSE [result |-> cached.content,
              outcome |-> IF Truthy(cached.content) THEN "hit" ELSE "empty",
              storage |-> sessionStorage,
              keys |-> sessionStorageKeys \cup {cacheKey}]

\* result: the content returned (<<>> stands for null), and the storage and
\* the tracked keys as the call leaves them
loadFromSessionStorage(namespace) ==
    LET cacheKey == getCacheKey(namespace)
        cached == sessionStorage[cacheKey]
    IN  IF cached.kind = "absent"
        THEN [result |-> <<>>, outcome |-> "absent",
              storage |-> sessionStorage, keys |-> sessionStorageKeys]
        ELSE IF ~JsonParses(cached)
        THEN [result |-> <<>>, outcome |-> "corrupt",
              storage |-> sessionStorage, keys |-> sessionStorageKeys]
        ELSE IF cached.version # SPRITE_VERSION
        THEN [result |-> <<>>, outcome |-> "stale",
              storage |-> [sessionStorage EXCEPT ![cacheKey] = NoItem],
              keys |-> sessionStorageKeys \ {cacheKey}]
        ELSE [result |-> cached.content,
              outcome |-> IF Truthy(cached.content) THEN "hit" ELSE "empty",
              storage |-> sessionStorage,
              keys |-> sessionStorageKeys \cup {cacheKey}]

saveToSessionStorage(storage, keys, namespace, content) ==
    LET cacheKey == getCacheKey(namespace)
    IN  [storage |-> [storage EXCEPT
                         ![cacheKey] = JsonStringify(SPRITE_VERSION, content)],
         keys |-> keys \cup {cacheKey}]

----------------------------------------------------------------------------
(* The server side of a fetch *)

\* GET /icons and GET /icons/[namespace]: the sprite file of the namespace is
\* either missing or holds some text
RouteGET(namespace, exists, fileText) ==
    IF exists
    THEN [net |-> "ok", status |-> "200", ok |-> TRUE, body |-> fileText]
    ELSE IF namespace = "default"
    THEN [net |-> "ok", status |-> "200", ok |-> TRUE, body |-> EMPTY_SPRITE]
    ELSE [net |-> "ok", status |-> "404", ok |-> FALSE, body |-> EMPTY_SPRITE]

NetworkError == [net |-> "error", status |-> "", ok |-> FALSE, body |-> <<>>]

FileTexts(ns) == {Sprite(ns), PaddedSprite(ns), HtmlPage, EmptyText}

Responses(ns) ==
    {NetworkError} \cup {RouteGET(ns, FALSE, <<>>)}
        \cup {RouteGET(ns, TRUE, t) : t \in FileTexts(ns)}

\* fetchSpriteFromServer: throws on a network error and on a non-ok status
fetchThrows(response) == response.net = "error" \/ ~response.ok

----------------------------------------------------------------------------
(* DOM *)
NoContainer == <<"#none">>

\* the loader before the validation gate was added
injectSprite_Unchecked(doc, namespace, content) ==
    [doc EXCEPT ![namespace] = content]

\* injectSprite: the document after the call
injectSprite(doc, namespace, content) ==
    IF ~isValidSvgContent(content)
    THEN doc
    ELSE [doc EXCEPT ![namespace] = content]

\* document.getElementById(`sprite-container-${namespace}`)
getElementById(children, namespace) ==
    \E i \in DOMAIN children : children[i] = namespace

\* injectSprite: the children of document.body after the call
appendContainer(children, namespace, content) ==
    IF ~isValidSvgContent(content)
    THEN children
    ELSE IF getElementById(children, namespace)
         THEN children
         ELSE Append(children, namespace)

----------------------------------------------------------------------------
(* The build script: names are sequences of one-character strings *)

(* Bounds of the build model *)
MaxEntries == 2

LowerLetters == <<"a", "b", "c", "d", "e", "f", "g", "h", "i", "j", "k", "l", "m",
                  "n", "o", "p", "q", "r", "s", "t", "u", "v", "w", "x", "y", "z">>
UpperLetters == <<"A", "B", "C", "D", "E", "F", "G", "H", "I", "J", "K", "L", "M",
                  "N", "O", "P", "Q", "R", "S", "T", "U", "V", "W", "X", "Y", "Z">>
Digits == {"0", "1", "2", "3", "4", "5", "6", "7", "8", "9"}
Whitespace == {" ", "\t"}

IsLower(ch) == \E i \in DOMAIN LowerLetters : LowerLetters[i] = ch
IsUpper(ch) == \E i \in DOMAIN UpperLetters : UpperLetters[i] = ch
ToLowerChar(ch) ==
    IF IsUpper(ch)
    THEN LowerLetters[CHOOSE i \in DOMAIN UpperLetters : UpperLetters[i] = ch]
    ELSE ch
toLowerCase(s) == [i \in DOMAIN s |-> ToLowerChar(s[i])]

ReplaceChars(s, from, to) == [i \in DOMAIN s |-> IF s[i] \in from THEN to ELSE s[i]]

\* replace(/X+/g, to): every maximal run of characters of `run` becomes `to`
RECURSIVE CollapseRuns(_, _, _)
CollapseRuns(s, run, to) ==
    IF s = <<>> THEN <<>>
    ELSE IF Head(s) \in run
    THEN IF Len(s) > 1 /\ s[2] \in run
         THEN CollapseRuns(Tail(s), run, to)
         ELSE <<to>> \o CollapseRuns(Tail(s), run, to)
    ELSE <<Head(s)>> \o CollapseRuns(Tail(s), run, to)

\* replace(/([a-z0-9])([A-Z])/g, '$1-$2')
RECURSIVE SplitCamelCase(_)
SplitCamelCase(s) ==
    IF Len(s) < 2 THEN s
    ELSE IF (IsLower(s[1]) \/ s[1] \in Digits) /\ IsUpper(s[2])
    THEN <<s[1], "-">> \o SplitCamelCase(Tail(s))
    ELSE <<s[1]>> \o SplitCamelCase(Tail(s))

\* replace(/^-|-$/g, '')
StripHyphens(s) ==
    LET t == IF s # <<>> /\ Head(s) = "-" THEN Tail(s) ELSE s
    IN  IF t # <<>> /\ t[Len(t)] = "-" THEN SubSeq(t, 1, Len(t) - 1) ELSE t

\* the same steps with the lowercasing moved to the front
normalizeIconName_LowercaseFirst(name) ==
    StripHyphens(
      CollapseRuns(
        ReplaceChars(
          SplitCamelCase(
            ReplaceChars(CollapseRuns(toLowerCase(name), Whitespace, " "),
                         Whitespace, "-")),
          {"_"}, "-"),
        {"-"}, "-"))

\* defined for a non-empty name; the script throws on an empty one
normalizeIconName(name) ==
    StripHyphens(
      CollapseRuns(
        toLowerCase(
          ReplaceChars(
            SplitCamelCase(
              ReplaceChars(CollapseRuns(name, Whitespace, " "), Whitespace, "-")),
            {"_"}, "-")),
        {"-"}, "-"))

\* normalizeIconName as called: it throws on an empty name
NotCalled == [status |-> "none", value |-> <<>>]
callNormalizeIconName(name) ==
    IF name = <<>>
    THEN [status |-> "threw", value |-> <<>>]
    ELSE [status |-> "returned", value |-> normalizeIconName(name)]

NormIdle ==
    /\ nameIn = <<>>
    /\ nameOut = NotCalled
    /\ nameAgain = NotCalled

(* The plugin before next.config.js is evaluated *)
NoHook == [isServer |-> FALSE, dev |-> FALSE, did |-> "none"]
PluginIdle ==
    /\ watcherInitialized = FALSE
    /\ watchers = 0
    /\ svgDirPath = TRUE
    /\ hookRuns = 0
    /\ rebuilds = 0
    /\ hookLog = NoHook

DEFAULT_NAMESPACE == <<"d", "e", "f", "a", "u", "l", "t">>
DotSvg == <<".", "s", "v", "g">>
IconsPrefix == <<"i", "c", "o", "n", "s", "-">>
DefaultSpriteName == <<"i", "c", "o", "n", "s", "-", "s", "p", "r", "i", "t", "e", ".", "s", "v", "g">>
RootLevelLabel == <<"default (root level)">>

EndsWith(s, suffix) ==
    /\ Len(s) >= Len(suffix)
    /\ SubSeq(s, Len(s) - Len(suffix) + 1, Len(s)) = suffix

\* path.basename(name, '.svg')
basename(name) ==
    IF name = DotSvg THEN <<>>
    ELSE IF EndsWith(name, DotSvg) THEN SubSeq(name, 1, Len(name) - Len(DotSvg))
    ELSE name

\* 1-based position of the first / last occurrence, 0 when there is none
\* (JavaScript: indexOf + 1)
IndexOf(s, ch) ==
    IF \E i \in DOMAIN s : s[i] = ch
    THEN CHOOSE i \in DOMAIN s : s[i] = ch /\ \A j \in 1..(i - 1) : s[j] # ch
    ELSE 0
LastIndexOf(s, ch) ==
    IF \E i \in DOMAIN s : s[i] = ch
    THEN CHOOSE i \in DOMAIN s : s[i] = ch /\ \A j \in (i + 1)..Len(s) : s[j] # ch
    ELSE 0

(* The source tree *)
File(name) == [kind |-> "file", name |-> name, entries |-> <<>>]
Dir(name, entries) == [kind |-> "dir", name |-> name, entries |-> entries]

RECURSIVE getSvgFiles(_, _, _, _)
getSvgFiles(entries, dir, namespace, originalNamespace) ==
    IF entries = <<>> THEN <<>>
    ELSE
      LET entry == Head(entries)
          fullPath == Append(dir, entry.name)
          found ==
            IF entry.kind = "dir"
            THEN LET normalizedFolderName == normalizeIconName(entry.name)
                     newNamespace ==
                        IF namespace # <<>>
                        THEN namespace \o <<":">> \o normalizedFolderName
                        ELSE normalizedFolderName
                     newOriginalNamespace ==
                        IF originalNamespace # <<>>
                        THEN originalNamespace \o <<"/">> \o entry.name
                        ELSE entry.name
                 IN  getSvgFiles(entry.entries, fullPath, newNamespace,
                                 newOriginalNamespace)
            ELSE IF EndsWith(toLowerCase(entry.name), DotSvg)
            THEN LET originalFileName == basename(entry.name)
                     normalizedFileName == normalizeIconName(originalFileName)
                 IN  <<[originalName |->
                           IF originalNamespace # <<>>
                           THEN originalNamespace \o <<"/">> \o originalFileName
                           ELSE originalFileName,
                        name |->
                           IF namespace # <<>>
                           THEN namespace \o <<":">> \o normalizedFileName
                           ELSE normalizedFileName,
                        path |-> fullPath]>>
            ELSE <<>>
      IN  found \o getSvgFiles(Tail(entries), dir, namespace, originalNamespace)

\* getSvgFiles(SVG_DIR): a missing directory yields an empty list
scanSvgDir == IF ~svgDirExists THEN <<>> ELSE getSvgFiles(tree, <<>>, <<>>, <<>>)

\* "social:facebook" -> namespace "social", icon name "facebook"
SplitName(name) ==
    LET colon == IndexOf(name, ":")
    IN  IF colon > 1
        THEN [namespace |-> SubSeq(name, 1, colon - 1),
              iconName |-> SubSeq(name, colon + 1, Len(name))]
        ELSE [namespace |-> DEFAULT_NAMESPACE, iconName |-> name]

OriginalNamesOf(files, key) ==
    LET hits == SelectSeq(files, LAMBDA f : SplitName(f.name) = key)
    IN  [i \in DOMAIN hits |-> hits[i].originalName]

\* a check that looks at the root level only
checkForDuplicates_RootOnly(files) ==
    LET key(i) == SplitName(files[i].name)
        same(i) == {j \in DOMAIN files : key(j) = key(i)}
    IN  {[namespace |-> RootLevelLabel,
          iconName |-> key(i).iconName,
          files |-> OriginalNamesOf(files, key(i))] :
            i \in {i \in DOMAIN files :
                      Cardinality(same(i)) > 1 /\ key(i).namespace = DEFAULT_NAMESPACE}}

\* duplicatesFound; the build throws when it is not empty
checkForDuplicates(files) ==
    LET key(i) == SplitName(files[i].name)
        same(i) == {j \in DOMAIN files : key(j) = key(i)}
    IN  {[namespace |-> IF key(i).namespace = DEFAULT_NAMESPACE
                        THEN RootLevelLabel ELSE key(i).namespace,
          iconName |-> key(i).iconName,
          files |-> OriginalNamesOf(files, key(i))] :
            i \in {i \in DOMAIN files : Cardinality(same(i)) > 1}}

(* Renaming the source files *)
RECURSIVE ExistsAt(_, _)
ExistsAt(entries, path) ==
    \E i \in DOMAIN entries :
        /\ entries[i].name = Head(path)
        /\ \/ Len(path) = 1
           \/ entries[i].kind = "dir" /\ ExistsAt(entries[i].entries, Tail(path))

RECURSIVE RenameAt(_, _, _)
RenameAt(entries, path, newName) ==
    [i \in DOMAIN entries |->
        IF entries[i].name # Head(path) THEN entries[i]
        ELSE IF Len(path) = 1 THEN [entries[i] EXCEPT !.name = newName]
        ELSE [entries[i] EXCEPT !.entries = RenameAt(@, Tail(path), newName)]]

DirName(path) == SubSeq(path, 1, Len(path) - 1)

\* one iteration of the loop of renameFilesToKebabCase on state
\* st = [tree, files, renamed]
RenameOne(st, file) ==
    LET dir == DirName(file.path)
        originalFileName == file.path[Len(file.path)]
        originalBaseName == basename(originalFileName)
        lastColon == LastIndexOf(file.name, ":")
        expectedBaseName == SubSeq(file.name, lastColon + 1, Len(file.name))
        expectedFileName == expectedBaseName \o DotSvg
        newPath == Append(dir, expectedFileName)
    IN  IF originalBaseName = expectedBaseName \/ ExistsAt(st.tree, newPath)
        THEN [st EXCEPT !.files = Append(@, file)]
        ELSE [tree |-> RenameAt(st.tree, file.path, expectedFileName),
              files |-> Append(st.files, [file EXCEPT !.path = newPath]),
              renamed |-> st.renamed \cup {file.originalName}]

RECURSIVE RenameLoop(_, _)
RenameLoop(st, files) ==
    IF files = <<>> THEN st
    ELSE RenameLoop(RenameOne(st, Head(files)), Tail(files))

renameFilesToKebabCase(source, files) ==
    RenameLoop([tree |-> source, files |-> <<>>, renamed |-> {}], files)

(* Grouping *)
RECURSIVE GroupLoop(_, _)
GroupLoop(groups, files) ==
    IF files = <<>> THEN groups
    ELSE
      LET file == Head(files)
          split == SplitName(file.name)
          icon == [originalName |-> file.originalName, name |-> file.name,
                   path |-> file.path, iconName |-> split.iconName,
                   fullName |-> file.name]
          at == {g \in DOMAIN groups : groups[g].namespace = split.namespace}
          next == IF at = {}
                  THEN Append(groups, [namespace |-> split.namespace,
                                       icons |-> <<icon>>])
                  ELSE [g \in DOMAIN groups |->
                          IF g \in at
                          THEN [groups[g] EXCEPT !.icons = Append(@, icon)]
                          ELSE groups[g]]
      IN  GroupLoop(next, Tail(files))

groupByNamespace(files) == GroupLoop(<<>>, files)

(* Output *)
spriteFileName(namespace) ==
    IF namespace = DEFAULT_NAMESPACE
    THEN DefaultSpriteName
    ELSE IconsPrefix \o namespace \o DotSvg

\* fs.writeFileSync: the file is created or replaced
WriteFile(dir, name, symbols) ==
    {f \in dir : f.name # name} \cup {[name |-> name, symbols |-> symbols]}

NoTypes == [exists |-> FALSE, never |-> FALSE, union |-> <<>>, iconNames |-> <<>>]

\* a listing that falls back to a catch-all type when there is no icon
generateTypeDefinitions_AnyString(iconNames) ==
    [exists |-> TRUE,
     never |-> FALSE,
     union |-> iconNames,
     iconNames |-> iconNames]

\* the text written to components/icon-types.ts
generateTypeDefinitions(iconNames) ==
    [exists |-> TRUE,
     never |-> Len(iconNames) = 0,
     union |-> iconNames,
     iconNames |-> iconNames]

----------------------------------------------------------------------------
(* Source trees of the build model *)
N_aB == <<"a", "B", ".", "s", "v", "g">>
N_a_b == <<"a", "_", "b", ".", "s", "v", "g">>
N_c == <<"c", ".", "s", "v", "g">>
N_notes == <<"n", ".", "t", "x", "t">>
N_s == <<"s">>
N_S == <<"S">>
N_n == <<"n">>
N_sprite == <<"s", "p", "r", "i", "t", "e">>
N_underscore == <<"_", ".", "s", "v", "g">>

SubTrees ==
    {<<File(N_c)>>,
     <<File(N_aB), File(N_a_b)>>,
     <<File(N_a_b), Dir(N_n, <<File(N_aB), File(N_a_b)>>)>>,
     <<Dir(N_n, <<File(N_c)>>), File(N_c)>>}

EntryPool ==
    {File(N_aB), File(N_a_b), File(N_c), File(N_notes), File(N_underscore)}
        \cup {Dir(d, sub) : d \in {N_s, N_S, N_sprite}, sub \in SubTrees}

\* root-level files on both sides of a folder, as readdir lists them by name
InterleavedTrees ==
    {<<File(N_aB), Dir(N_s, <<File(N_c)>>), File(N_c)>>,
     <<File(N_aB), Dir(N_n, <<File(N_a_b)>>), Dir(N_s, <<File(N_a_b)>>)>>}

\* a folder that carries the name of the default namespace
DefaultFolderTrees ==
    {<<Dir(DEFAULT_NAMESPACE, <<File(N_c)>>)>>,
     <<File(N_aB), Dir(DEFAULT_NAMESPACE, <<File(N_c)>>)>>}

\* directories list each name once
Trees ==
    InterleavedTrees \cup DefaultFolderTrees \cup
    {t \in UNION {[1..n -> EntryPool] : n \in 0..MaxEntries} :
        \A i, j \in DOMAIN t : i # j => t[i].name # t[j].name}

BuildIdle ==
    /\ svgDirExists = TRUE
    /\ tree = <<>>
    /\ pc = "off"
    /\ allSvgFiles = <<>>
    /\ namespaceGroups = <<>>
    /\ nsDone = 0
    /\ allIconNames = <<>>
    /\ publicDir = {}
    /\ typesFile = NoTypes
    /\ report = {}
    /\ error = ""
    /\ renamed = {}
    /\ buildNo = 0

----------------------------------------------------------------------------
(* Loader state *)
NoFetch == [status |-> "unused", ns |-> "", sess |-> ""]
IdleCall == [state |-> "idle", ns |-> "", promise |-> NoPromise]
NoOp == [op |-> "init", via |-> ""]

\* what a previous deployment or other code may have left under a sprite key
InitItems(ns) == {NoItem, JsonStringify(OLD_VERSION, OldSprite(ns)), ForeignItem}

Init ==
    /\ spriteCache = [ns \in Namespaces |-> NoEntry]
    /\ sessionStorageKeys = {}
    /\ sessionStorage \in
          {s \in [Keys -> {NoItem, ForeignItem}
                            \cup UNION {InitItems(ns) : ns \in Namespaces}] :
              /\ \A k \in ForeignKeys : s[k] = ForeignItem
              /\ \A ns \in Namespaces : s[getCacheKey(ns)] \in InitItems(ns)}
    /\ fetches = [f \in FetchIds |-> NoFetch]
    /\ calls = [c \in CallIds |-> IdleCall]
    /\ containers = [ns \in Namespaces |-> NoContainer]
    /\ body = <<>>
    /\ lastOp = NoOp
    /\ BuildIdle
    /\ NormIdle
    /\ PluginIdle

InFlight(ns) == {f \in FetchIds : fetches[f].status = "inflight" /\ fetches[f].ns = ns}
UnusedFetches == {f \in FetchIds : fetches[f].status = "unused"}
NextFetch == CHOOSE f \in UnusedFetches : \A g \in UnusedFetches : f <= g
IdleCalls == {c \in CallIds : calls[c].state = "idle"}
NextCall == CHOOSE c \in IdleCalls : \A d \in IdleCalls : c <= d

----------------------------------------------------------------------------
(* loadSprite(namespace): the synchronous part of one invocation, up to its
   first await or its return *)

\* the call finds a pending promise in the cache and awaits it
LoadAttach(c, namespace) ==
    LET cached == spriteCache[namespace]
    IN  /\ cached.present /\ cached.promise # NoPromise
        /\ calls' = [calls EXCEPT ![c] =
                        [state |-> "waiting", ns |-> namespace, promise |-> cached.promise]]
        /\ lastOp' = [op |-> "load", via |-> "attach"]
        /\ UNCHANGED <<spriteCache, sessionStorageKeys, sessionStorage, fetches, containers, body>>

\* already loaded and cached
LoadFromMemory(c, namespace) ==
    LET cached == spriteCache[namespace]
    IN  /\ cached.present /\ cached.promise = NoPromise
        /\ cached.version = SPRITE_VERSION /\ Truthy(cached.content)
        /\ containers' = injectSprite(containers, namespace, cached.content)
        /\ body' = appendContainer(body, namespace, cached.content)
        /\ calls' = [calls EXCEPT ![c] =
                        [state |-> "resolved", ns |-> namespace, promise |-> NoPromise]]
        /\ lastOp' = [op |-> "load", via |-> "memory"]
        /\ UNCHANGED <<spriteCache, sessionStorageKeys, sessionStorage, fetches>>

\* a check that overlooks the pending promise
MemoryMiss_IgnorePromise(namespace) ==
    LET cached == spriteCache[namespace]
    IN  \/ ~cached.present
        \/ ~(cached.version = SPRITE_VERSION /\ Truthy(cached.content))

\* the in-memory cache cannot serve the call
MemoryMiss(namespace) ==
    LET cached == spriteCache[namespace]
    IN  \/ ~cached.present
        \/ /\ cached.promise = NoPromise
           /\ ~(cached.version = SPRITE_VERSION /\ Truthy(cached.content))

\* a session hit that forgets to fill the in-memory cache
LoadFromSession_NoBackfill(c, namespace) ==
    LET r == loadFromSessionStorage(namespace)
    IN  /\ MemoryMiss(namespace)
        /\ Truthy(r.result)
        /\ sessionStorage' = r.storage
        /\ sessionStorageKeys' = r.keys
        /\ containers' = injectSprite(containers, namespace, r.result)
        /\ body' = appendContainer(body, namespace, r.result)
        /\ calls' = [calls EXCEPT ![c] =
                        [state |-> "resolved", ns |-> namespace, promise |-> NoPromise]]
        /\ lastOp' = [op |-> "load", via |-> "session"]
        /\ UNCHANGED <<fetches, spriteCache>>

LoadFromSession(c, namespace) ==
    LET r == loadFromSessionStorage(namespace)
    IN  /\ MemoryMiss(namespace)
        /\ Truthy(r.result)
        /\ sessionStorage' = r.storage
        /\ sessionStorageKeys' = r.keys
        /\ spriteCache' = [spriteCache EXCEPT ![namespace] =
                              Entry(SPRITE_VERSION, r.result, NoPromise)]
        /\ containers' = injectSprite(containers, namespace, r.result)
        /\ body' = appendContainer(body, namespace, r.result)
        /\ calls' = [calls EXCEPT ![c] =
                        [state |-> "resolved", ns |-> namespace, promise |-> NoPromise]]
        /\ lastOp' = [op |-> "load", via |-> "session"]
        /\ UNCHANGED fetches

\* the fetch is issued and the placeholder stored before loadSprite first yields
LoadFetch(c, namespace) ==
    LET r == loadFromSessionStorage(namespace)
    IN  /\ MemoryMiss(namespace)
        /\ ~Truthy(r.result)
        /\ UnusedFetches # {}
        /\ sessionStorage' = r.storage
        /\ sessionStorageKeys' = r.keys
        /\ fetches' = [fetches EXCEPT ![NextFetch] =
                          [status |-> "inflight", ns |-> namespace,
                           sess |-> r.outcome]]
        /\ spriteCache' = [spriteCache EXCEPT ![namespace] =
                              Entry(SPRITE_VERSION, <<>>, NextFetch)]
        /\ calls' = [calls EXCEPT ![c] =
                        [state |-> "waiting", ns |-> namespace, promise |-> NextFetch]]
        /\ lastOp' = [op |-> "load", via |-> "fetch"]
        /\ UNCHANGED <<containers, body>>

loadSprite(c, namespace) ==
    /\ LoadAttach(c, namespace) \/ LoadFromMemory(c, namespace)
         \/ LoadFromSession(c, namespace) \/ LoadFetch(c, namespace)
    /\ UNCHANGED <<bvars, nvars, pvars>>

LoadSprite ==
    /\ IdleCalls # {}
    /\ \E namespace \in Namespaces : loadSprite(NextCall, namespace)

----------------------------------------------------------------------------
(* The continuation of loadPromise once fetchSpriteFromServer settles *)

FetchSucceeds(f, response) ==
    LET namespace == fetches[f].ns
        content == response.body
        saved == saveToSessionStorage(sessionStorage, sessionStorageKeys,
                                      namespace, content)
    IN  /\ ~fetchThrows(response)
        /\ sessionStorage' = saved.storage
        /\ sessionStorageKeys' = saved.keys
        /\ spriteCache' = [spriteCache EXCEPT ![namespace] =
                              Entry(SPRITE_VERSION, content, NoPromise)]
        /\ containers' = injectSprite(containers, namespace, content)
        /\ body' = appendContainer(body, namespace, content)
        /\ fetches' = [fetches EXCEPT ![f].status = "resolved"]
        /\ lastOp' = [op |-> "respond", via |-> "ok"]
        /\ UNCHANGED calls

\* a catch block that rethrows without deleting the placeholder
FetchFails_KeepPlaceholder(f, response) ==
    LET namespace == fetches[f].ns
    IN  /\ fetchThrows(response)
        /\ fetches' = [fetches EXCEPT ![f].status = "rejected"]
        /\ lastOp' = [op |-> "respond", via |-> "failed"]
        /\ UNCHANGED <<spriteCache, sessionStorage, sessionStorageKeys, containers, body, calls>>

\* a catch block that drops the whole map
FetchFails_ClearsAll(f, response) ==
    LET namespace == fetches[f].ns
    IN  /\ fetchThrows(response)
        /\ spriteCache' = [ns \in Namespaces |-> NoEntry]
        /\ fetches' = [fetches EXCEPT ![f].status = "rejected"]
        /\ lastOp' = [op |-> "respond", via |-> "failed"]
        /\ UNCHANGED <<sessionStorage, sessionStorageKeys, containers, body, calls>>

FetchFails(f, response) ==
    LET namespace == fetches[f].ns
    IN  /\ fetchThrows(response)
        /\ spriteCache' = [spriteCache EXCEPT ![namespace] = NoEntry]
        /\ fetches' = [fetches EXCEPT ![f].status = "rejected"]
        /\ lastOp' = [op |-> "respond", via |-> "failed"]
        /\ UNCHANGED <<sessionStorage, sessionStorageKeys, containers, body, calls>>

FetchSettles(f, response) ==
    /\ fetches[f].status = "inflight"
    /\ FetchSucceeds(f, response) \/ FetchFails(f, response)
    /\ UNCHANGED <<bvars, nvars, pvars>>

FetchCompletes ==
    \E f \in FetchIds : \E response \in Responses(fetches[f].ns) :
        FetchSettles(f, response)

\* an await that resumes on fulfilment only
Settle_FulfilledOnly(c) ==
    /\ calls[c].state = "waiting"
    /\ fetches[calls[c].promise].status = "resolved"
    /\ calls' = [calls EXCEPT ![c].state = "resolved"]
    /\ lastOp' = [op |-> "settle", via |-> ""]
    /\ UNCHANGED <<spriteCache, sessionStorageKeys, sessionStorage, fetches, containers, body>>
    /\ UNCHANGED <<bvars, nvars, pvars>>

\* a loadSprite call resumes after its await: it resolves or rejects with
\* the promise it awaited
Settle(c) ==
    /\ calls[c].state = "waiting"
    /\ fetches[calls[c].promise].status \in {"resolved", "rejected"}
    /\ calls' = [calls EXCEPT ![c].state = fetches[calls[c].promise].status]
    /\ lastOp' = [op |-> "settle", via |-> ""]
    /\ UNCHANGED <<spriteCache, sessionStorageKeys, sessionStorage, fetches, containers, body>>
    /\ UNCHANGED <<bvars, nvars, pvars>>

CallSettles == \E c \in CallIds : Settle(c)

----------------------------------------------------------------------------
(* clearSpriteCache *)
\* the earlier loader, which swept every key carrying the prefix
ClearTrackedKeys_ByPrefix(storage, keys) ==
    [k \in Keys |-> IF k[1] = CACHE_KEY_PREFIX THEN NoItem ELSE storage[k]]

ClearTrackedKeys(storage, keys) ==
    [k \in Keys |-> IF k \in keys THEN NoItem ELSE storage[k]]

clearSpriteCache ==
    /\ spriteCache' = [ns \in Namespaces |-> NoEntry]
    /\ sessionStorage' = ClearTrackedKeys(sessionStorage, sessionStorageKeys)
    /\ sessionStorageKeys' = {}
    /\ lastOp' = [op |-> "clear",
                  via |-> IF sessionStorageKeys = {} THEN "" ELSE "removed"]
    /\ UNCHANGED <<fetches, calls, containers, body>>
    /\ UNCHANGED <<bvars, nvars, pvars>>

\* The page is reloaded: module state and document start afresh, the fetches
\* and calls of the old page are gone, session storage survives.
Reload ==
    /\ lastOp.op # "reload"
    /\ spriteCache' = [ns \in Namespaces |-> NoEntry]
    /\ sessionStorageKeys' = {}
    /\ fetches' = [f \in FetchIds |-> NoFetch]
    /\ calls' = [c \in CallIds |-> IdleCall]
    /\ containers' = [ns \in Namespaces |-> NoContainer]
    /\ body' = <<>>
    /\ lastOp' = [op |-> "reload", via |-> ""]
    /\ UNCHANGED sessionStorage
    /\ UNCHANGED <<bvars, nvars, pvars>>

Next ==
    \/ LoadSprite
    \/ FetchCompletes
    \/ CallSettles
    \/ clearSpriteCache
    \/ Reload

Spec == Init /\ [][Next]_vars

----------------------------------------------------------------------------
(* One page visit under fairness: every issued fetch completes or fails, and
   the event loop resumes a call whose awaited promise has settled *)

LiveNext ==
    \/ LoadSprite
    \/ FetchCompletes
    \/ CallSettles
    \/ clearSpriteCache

Fairness ==
    /\ \A f \in FetchIds :
          WF_vars(\E response \in Responses(fetches[f].ns) : FetchSettles(f, response))
    /\ \A c \in CallIds : WF_vars(Settle(c))

LiveSpec == Init /\ [][LiveNext]_vars /\ Fairness

----------------------------------------------------------------------------
(* buildSprite(): one run of the build script over a source tree *)

LoaderIdle ==
    /\ spriteCache = [ns \in Namespaces |-> NoEntry]
    /\ sessionStorageKeys = {}
    /\ sessionStorage = [k \in Keys |-> IF k \in ForeignKeys THEN ForeignItem ELSE NoItem]
    /\ fetches = [f \in FetchIds |-> NoFetch]
    /\ calls = [c \in CallIds |-> IdleCall]
    /\ containers = [ns \in Namespaces |-> NoContainer]
    /\ body = <<>>
    /\ lastOp = NoOp

BuildInit ==
    /\ LoaderIdle
    /\ NormIdle
    /\ PluginIdle
    /\ svgDirExists \in BOOLEAN
    /\ tree \in (IF svgDirExists THEN Trees ELSE {<<>>})
    /\ pc = "start"
    /\ allSvgFiles = <<>>
    /\ namespaceGroups = <<>>
    /\ nsDone = 0
    /\ allIconNames = <<>>
    /\ publicDir = {}
    /\ typesFile = NoTypes
    /\ report = {}
    /\ error = ""
    /\ renamed = {}
    /\ buildNo = 1

\* Step 1: scan the source directory
BuildScan ==
    /\ pc = "start"
    /\ allSvgFiles' = scanSvgDir
    /\ pc' = "scanned"
    /\ UNCHANGED <<svgDirExists, tree, namespaceGroups, nsDone, allIconNames, publicDir,
                   typesFile, report, error, renamed>>
    /\ UNCHANGED <<buildNo, lvars, nvars, pvars>>

\* returning at once, with nothing written
BuildEmpty_NoOutput ==
    /\ pc = "scanned"
    /\ Len(allSvgFiles) = 0
    /\ pc' = "done"
    /\ UNCHANGED <<svgDirExists, tree, allSvgFiles, namespaceGroups, nsDone,
                   allIconNames, publicDir, typesFile, report, error, renamed>>
    /\ UNCHANGED <<buildNo, lvars, nvars, pvars>>

\* Step 2: no SVG file at all: an empty default sprite and an empty listing;
\* a file that cannot be written fails the build
BuildEmpty ==
    /\ pc = "scanned"
    /\ Len(allSvgFiles) = 0
    /\ \E spriteWritable, typesWritable \in BOOLEAN :
          /\ IF spriteWritable
             THEN publicDir' = WriteFile(publicDir, DefaultSpriteName, <<>>)
             ELSE UNCHANGED publicDir
          /\ IF spriteWritable /\ typesWritable
             THEN /\ typesFile' = generateTypeDefinitions(<<>>)
                  /\ pc' = "done"
                  /\ UNCHANGED error
             ELSE /\ pc' = "failed"
                  /\ error' = "write"
                  /\ UNCHANGED typesFile
    /\ UNCHANGED <<svgDirExists, tree, allSvgFiles, namespaceGroups, nsDone,
                   allIconNames, report, renamed>>
    /\ UNCHANGED <<buildNo, lvars, nvars, pvars>>

\* Step 3: duplicates fail the build
BuildCheck ==
    /\ pc = "scanned"
    /\ Len(allSvgFiles) # 0
    /\ LET duplicatesFound == checkForDuplicates(allSvgFiles)
       IN  /\ report' = duplicatesFound
           /\ IF duplicatesFound # {}
              THEN pc' = "failed" /\ error' = "duplicate"
              ELSE pc' = "checked" /\ UNCHANGED error
    /\ UNCHANGED <<svgDirExists, tree, allSvgFiles, namespaceGroups, nsDone, allIconNames,
                   publicDir, typesFile, renamed>>
    /\ UNCHANGED <<buildNo, lvars, nvars, pvars>>

\* Steps 4 and 5: rename the sources to kebab-case, then group by namespace
BuildRename ==
    /\ pc = "checked"
    /\ LET done == renameFilesToKebabCase(tree, allSvgFiles)
       IN  /\ tree' = done.tree
           /\ allSvgFiles' = done.files
           /\ renamed' = done.renamed
           /\ namespaceGroups' = groupByNamespace(done.files)
    /\ pc' = "sprites"
    /\ UNCHANGED <<svgDirExists, nsDone, allIconNames, publicDir, typesFile, report,
                   error>>
    /\ UNCHANGED <<buildNo, lvars, nvars, pvars>>

\* sprites.add(iconName, svgContent): the symbol of an icon carries its id
\* and the content of its file, which stands here under the file's original name
Symbol(icon) == [id |-> icon.iconName, source |-> icon.originalName]

\* an assembly that gives up on the namespace at the first icon that fails
Without_RestDropped(icons, skip) == SubSeq(icons, 1, skip - 1)

\* the icons of a group without the one at position skip (0: none is skipped)
Without(icons, skip) ==
    SubSeq(icons, 1, skip - 1) \o SubSeq(icons, skip + 1, Len(icons))

\* a loop that logs a failed write and goes on with the next namespace
BuildWriteSprite_SkipNamespace ==
    /\ pc = "sprites"
    /\ nsDone < Len(namespaceGroups)
    /\ LET group == namespaceGroups[nsDone + 1]
       IN  \E skip \in 0..Len(group.icons), writable \in BOOLEAN :
            LET added == IF skip = 0 THEN group.icons ELSE Without(group.icons, skip)
            IN  /\ allIconNames' = allIconNames \o
                                     [i \in DOMAIN added |-> added[i].fullName]
                /\ publicDir' = IF writable
                                THEN WriteFile(publicDir, spriteFileName(group.namespace),
                                               [i \in DOMAIN added |-> Symbol(added[i])])
                                ELSE publicDir
                /\ error' = IF writable THEN error ELSE "write"
                /\ nsDone' = nsDone + 1
                /\ UNCHANGED pc
    /\ UNCHANGED <<svgDirExists, tree, allSvgFiles, namespaceGroups, typesFile, report,
                   renamed>>
    /\ UNCHANGED <<buildNo, lvars, nvars, pvars>>

\* Step 6, one namespace: an icon whose file cannot be read or optimized is
\* skipped; a sprite file that cannot be written fails the build
BuildWriteSprite ==
    /\ pc = "sprites"
    /\ nsDone < Len(namespaceGroups)
    /\ LET group == namespaceGroups[nsDone + 1]
       IN  \E skip \in 0..Len(group.icons), writable \in BOOLEAN :
            LET added == IF skip = 0 THEN group.icons ELSE Without(group.icons, skip)
            IN  /\ allIconNames' = allIconNames \o
                                     [i \in DOMAIN added |-> added[i].fullName]
                /\ IF writable
                   THEN /\ publicDir' = WriteFile(publicDir,
                                                  spriteFileName(group.namespace),
                                                  [i \in DOMAIN added |-> Symbol(added[i])])
                        /\ nsDone' = nsDone + 1
                        /\ UNCHANGED <<pc, error>>
                   ELSE /\ pc' = "failed"
                        /\ error' = "write"
                        /\ UNCHANGED <<publicDir, nsDone>>
    /\ UNCHANGED <<svgDirExists, tree, allSvgFiles, namespaceGroups, typesFile, report, renamed>>
    /\ UNCHANGED <<buildNo, lvars, nvars, pvars>>

\* Step 7: the type listing
BuildTypes ==
    /\ pc = "sprites"
    /\ nsDone = Len(namespaceGroups)
    /\ \E writable \in BOOLEAN :
          IF writable
          THEN /\ typesFile' = generateTypeDefinitions(allIconNames)
               /\ pc' = "done"
               /\ UNCHANGED error
          ELSE /\ pc' = "failed"
               /\ error' = "write"
               /\ UNCHANGED typesFile
    /\ UNCHANGED <<svgDirExists, tree, allSvgFiles, namespaceGroups, nsDone, allIconNames,
                   publicDir, report, renamed>>
    /\ UNCHANGED <<buildNo, lvars, nvars, pvars>>

BuildNext ==
    \/ BuildScan
    \/ BuildEmpty
    \/ BuildCheck
    \/ BuildRename
    \/ BuildWriteSprite
    \/ BuildTypes

BuildSpec == BuildInit /\ [][BuildNext]_vars

----------------------------------------------------------------------------
(* The build script run again over an edited source tree: npm run build:sprite
   once more, or the plugin's watcher after a change *)

MaxBuilds == 2

\* what the developer may add at the end of the directory
AddedEntries == {File(N_c), Dir(N_s, <<File(N_c)>>)}

\* the tree with one root entry removed
RemoveEntry(entries, i) ==
    [k \in 1..(Len(entries) - 1) |-> IF k < i THEN entries[k] ELSE entries[k + 1]]

\* the trees one edit away: an icon or a folder removed, or one added
Edits(entries) ==
    {RemoveEntry(entries, i) : i \in DOMAIN entries}
        \cup {Append(entries, e) : e \in {e \in AddedEntries :
                 \A i \in DOMAIN entries : entries[i].name # e.name}}

\* the source tree is edited and the script started again; the output
\* directory and the type listing are those the earlier runs left
SourceEdited ==
    /\ pc \in {"done", "failed"}
    /\ svgDirExists
    /\ buildNo < MaxBuilds
    /\ buildNo' = buildNo + 1
    /\ tree' \in Edits(tree)
    /\ pc' = "start"
    /\ allSvgFiles' = <<>>
    /\ namespaceGroups' = <<>>
    /\ nsDone' = 0
    /\ allIconNames' = <<>>
    /\ report' = {}
    /\ error' = ""
    /\ renamed' = {}
    /\ UNCHANGED <<svgDirExists, publicDir, typesFile>>
    /\ UNCHANGED <<lvars, nvars, pvars>>

RebuildNext == BuildNext \/ SourceEdited

RebuildSpec == BuildInit /\ [][RebuildNext]_vars

----------------------------------------------------------------------------
(* normalizeIconName on its own: a name is normalized, and the result is
   normalized once more *)

MaxNameLen == 3

NameAlphabet == {"a", "B", "1", "_", "-", " "}

Examples == {<<"s", "u", "n", "M", "o", "o", "n">>,
             <<"S", "u", "n", "M", "o", "o", "n">>,
             <<"s", "u", "n", "_", "m", "o", "o", "n">>,
             <<"s", "u", "n", " ", "m", "o", "o", "n">>,
             <<"s", "u", "n", " ", " ", "m", "o", "o", "n">>,
             <<"s", "u", "n", "-", "m", "o", "o", "n">>}

NameInputs ==
    Examples \cup UNION {[1..n -> NameAlphabet] : n \in 1..MaxNameLen}

NormInit ==
    /\ LoaderIdle
    /\ BuildIdle
    /\ PluginIdle
    /\ nameIn \in NameInputs
    /\ nameOut = NotCalled
    /\ nameAgain = NotCalled

Normalize ==
    /\ nameOut.status = "none"
    /\ nameOut' = callNormalizeIconName(nameIn)
    /\ UNCHANGED <<nameIn, nameAgain, lvars, bvars, pvars>>

NormalizeAgain ==
    /\ nameOut.status = "returned"
    /\ nameAgain.status = "none"
    /\ nameAgain' = callNormalizeIconName(nameOut.value)
    /\ UNCHANGED <<nameIn, nameOut, lvars, bvars, pvars>>

NormNext == Normalize \/ NormalizeAgain

NormSpec == NormInit /\ [][NormNext]_vars

----------------------------------------------------------------------------
(* The Next.js plugin: the webpack hook and the watcher it registers *)

(* Bounds of the plugin model *)
MaxHookRuns == 4
MaxRebuilds == 3

\* a hook that registers a watcher on every run
setUpWatcher_EveryRun(initialized, dirFound, watchThrows, count) ==
    IF ~dirFound THEN [watcherInitialized |-> TRUE, watchers |-> count, did |-> "no-dir"]
    ELSE IF watchThrows
         THEN [watcherInitialized |-> TRUE, watchers |-> count, did |-> "failed"]
         ELSE [watcherInitialized |-> TRUE, watchers |-> count + 1, did |-> "watching"]

\* the block guarded by watcherInitialized, entered after a successful
\* generation; an exception of fs.watch lands in the enclosing catch
setUpWatcher(initialized, dirFound, watchThrows, count) ==
    IF initialized
    THEN [watcherInitialized |-> TRUE, watchers |-> count, did |-> "generated"]
    ELSE IF ~dirFound
         THEN [watcherInitialized |-> TRUE, watchers |-> count, did |-> "no-dir"]
         ELSE IF watchThrows
              THEN [watcherInitialized |-> TRUE, watchers |-> count, did |-> "failed"]
              ELSE [watcherInitialized |-> TRUE, watchers |-> count + 1, did |-> "watching"]

\* webpack(config, context): one run of the hook
webpack(isServer, dev, execThrows, watchThrows) ==
    /\ hookRuns < MaxHookRuns
    /\ hookRuns' = hookRuns + 1
    /\ IF ~isServer /\ dev
       THEN IF execThrows
            THEN /\ hookLog' = [isServer |-> isServer, dev |-> dev, did |-> "failed"]
                 /\ UNCHANGED <<watcherInitialized, watchers>>
            ELSE LET r == setUpWatcher(watcherInitialized, svgDirPath, watchThrows, watchers)
                 IN  /\ watcherInitialized' = r.watcherInitialized
                     /\ watchers' = r.watchers
                     /\ hookLog' = [isServer |-> isServer, dev |-> dev, did |-> r.did]
       ELSE /\ hookLog' = [isServer |-> isServer, dev |-> dev, did |-> "skipped"]
            /\ UNCHANGED <<watcherInitialized, watchers>>
    /\ UNCHANGED <<svgDirPath, rebuilds>>
    /\ UNCHANGED <<lvars, bvars, nvars>>

Webpack ==
    \E isServer \in BOOLEAN, dev \in BOOLEAN, execThrows \in BOOLEAN, watchThrows \in BOOLEAN :
        webpack(isServer, dev, execThrows, watchThrows)

\* the callback of fs.watch: every registered watcher reports the change
WatchEvent ==
    /\ watchers > 0
    /\ svgDirPath
    /\ rebuilds < MaxRebuilds
    /\ \E hasFilename \in BOOLEAN :
          /\ rebuilds' = IF hasFilename THEN rebuilds + 1 ELSE rebuilds
          /\ hookLog' = [isServer |-> FALSE, dev |-> TRUE,
                         did |-> IF hasFilename THEN "rebuilt" ELSE "ignored"]
    /\ UNCHANGED <<watcherInitialized, watchers, svgDirPath, hookRuns>>
    /\ UNCHANGED <<lvars, bvars, nvars>>

\* the developer creates or removes the icon directory
DirChanges ==
    /\ svgDirPath' = ~svgDirPath
    /\ hookLog' = [isServer |-> FALSE, dev |-> FALSE, did |-> "dir"]
    /\ UNCHANGED <<watcherInitialized, watchers, hookRuns, rebuilds>>
    /\ UNCHANGED <<lvars, bvars, nvars>>

PluginInit ==
    /\ LoaderIdle
    /\ BuildIdle
    /\ NormIdle
    /\ watcherInitialized = FALSE
    /\ watchers = 0
    /\ svgDirPath \in BOOLEAN
    /\ hookRuns = 0
    /\ rebuilds = 0
    /\ hookLog = NoHook

PluginNext == Webpack \/ WatchEvent \/ DirChanges

PluginSpec == PluginInit /\ [][PluginNext]_vars

----------------------------------------------------------------------------
(* Properties of the loader *)

\* the next loadSprite(ns) would go to the server
WouldFetch(ns) == MemoryMiss(ns) /\ ~Truthy(loadFromSessionStorage(ns).result)

Loading(ns) == spriteCache[ns].present /\ spriteCache[ns].promise # NoPromise
Settled(c) == calls[c].state \in {"resolved", "rejected"}

\* C1: a loadSprite call made while the namespace is loading (the first
\* call's placeholder is in the cache, its fetch not yet completed) issues no
\* fetch of its own and awaits the promise of that load, so the calls share
\* one fetch; and every call that awaited a promise settles with the outcome
\* of that promise's fetch.
C1_SingleFlight ==
    /\ [][\A c \in CallIds : \A ns \in Namespaces :
            (Loading(ns) /\ loadSprite(c, ns)) =>
                /\ fetches' = fetches
                /\ calls'[c].state = "waiting"
                /\ calls'[c].promise = spriteCache[ns].promise
                /\ fetches[spriteCache[ns].promise].status = "inflight"
                /\ fetches[spriteCache[ns].promise].ns = ns]_vars
    /\ [](\A c \in CallIds :
            (Settled(c) /\ calls[c].promise # NoPromise) =>
                calls[c].state = fetches[calls[c].promise].status)

\* two calls of one namespace shared the only fetch issued and both resolved
C1_Witness ==
    /\ calls[1].ns = "social" /\ calls[2].ns = "social"
    /\ calls[1].promise = calls[2].promise /\ calls[1].promise # NoPromise
    /\ calls[1].state = "resolved" /\ calls[2].state = "resolved"
    /\ Cardinality({f \in FetchIds : fetches[f].status # "unused"}) = 1

\* C2: each namespace has at most one fetch in flight, in every reachable
\* state (loadSprite, clearSpriteCache, fetch completions and failures
\* interleaved in any way).
C2_AtMostOneInFlight == \A ns \in Namespaces : Cardinality(InFlight(ns)) <= 1

\* C3: when the fetch of a namespace fails (network error or non-ok status)
\* the namespace has no in-memory entry afterwards, session storage and the
\* document are untouched, a call that awaited the fetch can only reject,
\* and, the fetch being the one the namespace's placeholder stood for, the
\* next loadSprite of the namespace fetches again.
C3_FailureNotCached ==
    /\ [][\A f \in FetchIds : \A r \in Responses(fetches[f].ns) :
            (FetchSettles(f, r) /\ fetchThrows(r)) =>
                /\ ~spriteCache'[fetches[f].ns].present
                /\ sessionStorage' = sessionStorage
                /\ sessionStorageKeys' = sessionStorageKeys
                /\ containers' = containers
                /\ fetches'[f].status = "rejected"
                /\ (spriteCache[fetches[f].ns].promise = f => WouldFetch(fetches[f].ns)')]_vars
    /\ [][\A c \in CallIds :
            (Settle(c) /\ fetches[calls[c].promise].status = "rejected") =>
                calls'[c].state = "rejected"]_vars

\* the fetch of the namespace has failed, the placeholder is gone, the caller has
\* rejected and the namespace would be fetched again
C3_Witness ==
    /\ \E f \in FetchIds :
          /\ fetches[f].status = "rejected" /\ fetches[f].ns = "social"
          /\ \E c \in CallIds : calls[c].promise = f /\ calls[c].state = "rejected"
    /\ lastOp.op = "settle"
    /\ ~spriteCache["social"].present
    /\ WouldFetch("social")

\* C4: a fetch that returns content failing isValidSvgContent ends like a
\* failed fetch: no in-memory entry, nothing written to session storage, the
\* promise rejected.
C4_InvalidContentIsFailure ==
    [][\A f \in FetchIds : \A r \in Responses(fetches[f].ns) :
          (FetchSettles(f, r) /\ r.ok /\ ~isValidSvgContent(r.body)) =>
              /\ ~spriteCache'[fetches[f].ns].present
              /\ sessionStorage' = sessionStorage
              /\ fetches'[f].status = "rejected"
              /\ WouldFetch(fetches[f].ns)']_vars

\* C5: every sprite container of the document holds content that passes
\* isValidSvgContent, and a step writes a container only with such content.
C5_OnlyValidInjected ==
    /\ [](\A ns \in Namespaces :
            containers[ns] # NoContainer => isValidSvgContent(containers[ns]))
    /\ [][\A ns \in Namespaces :
            containers'[ns] # containers[ns] =>
                containers'[ns] = NoContainer \/ isValidSvgContent(containers'[ns])]_vars

\* a cached page that is not SVG was offered by the in-memory tier and the
\* namespace still has no container
C5_Witness ==
    /\ lastOp.op = "load" /\ lastOp.via = "memory"
    /\ ~spriteCache["default"].present
    /\ spriteCache["social"].content = HtmlPage
    /\ containers["social"] = NoContainer

StaleItem(item) == item.kind = "json" /\ item.version # SPRITE_VERSION

SessionHit(ns) ==
    /\ ~spriteCache[ns].present
    /\ sessionStorage[getCacheKey(ns)].kind = "json"
    /\ sessionStorage[getCacheKey(ns)].version = SPRITE_VERSION
    /\ Truthy(sessionStorage[getCacheKey(ns)].content)

C8_ClearForcesRefetch ==
    [][clearSpriteCache =>
          \A ns \in Namespaces : ~spriteCache'[ns].present /\ WouldFetch(ns)']_vars

\* C9: clearSpriteCache leaves every session-storage key it has not tracked
\* as it was, and the keys it tracks are sprite keys of the loader.
C9_ClearTouchesTrackedOnly ==
    /\ [][clearSpriteCache =>
            \A k \in Keys : k \notin sessionStorageKeys =>
                sessionStorage'[k] = sessionStorage[k]]_vars
    /\ [](sessionStorageKeys \subseteq {getCacheKey(ns) : ns \in Namespaces})

\* a clear removed the tracked sprite of one namespace and left the untracked
\* sprite of the other, and the keys of other code, in place
C9_Witness ==
    /\ lastOp.op = "clear" /\ lastOp.via = "removed"
    /\ sessionStorage[getCacheKey("social")] = NoItem
    /\ sessionStorage[getCacheKey("default")].kind = "json"
    /\ \A k \in ForeignKeys : sessionStorage[k] = ForeignItem

----------------------------------------------------------------------------
(* Properties of the build *)

\* the scanned files that share namespace and normalized icon name with file i
Colliding(i) == {j \in DOMAIN allSvgFiles : allSvgFiles[j].name = allSvgFiles[i].name}
HasDuplicates == \E i \in DOMAIN allSvgFiles : Cardinality(Colliding(i)) > 1

\* the full icon name a report entry is about
ReportedName(r) ==
    IF r.namespace = RootLevelLabel THEN r.iconName
    ELSE r.namespace \o <<":">> \o r.iconName

\* the original names of the files colliding with file i, in scan order
CollidingOriginals(i) ==
    LET hits == SelectSeq(allSvgFiles, LAMBDA f : f.name = allSvgFiles[i].name)
    IN  [k \in DOMAIN hits |-> hits[k].originalName]

NothingWritten == publicDir = {} /\ ~typesFile.exists /\ allIconNames = <<>>
NothingRenamed == renamed = {}

Range(seq) == {seq[i] : i \in DOMAIN seq}

\* the icons of a namespace group that were added to its sprite
AddedIcons(group) ==
    SelectSeq(group.icons, LAMBDA icon : icon.fullName \in Range(allIconNames))

\* the file the build wrote for a namespace holds exactly the symbols of the
\* given icons, once each
SpriteHolds(namespace, icons) ==
    \E file \in publicDir :
        /\ file.name = spriteFileName(namespace)
        /\ Range(file.symbols) = {Symbol(icon) : icon \in icons}
        /\ Len(file.symbols) = Cardinality({icon.iconName : icon \in icons})

\* C11: after a successful build the sprite file of every namespace of the
\* build holds one symbol for each icon of the namespace that was added,
\* with pairwise distinct ids, and no other symbol.
C11_SpritesMatchIcons ==
    (pc = "done" /\ allSvgFiles # <<>>) =>
        \A g \in DOMAIN namespaceGroups :
            SpriteHolds(namespaceGroups[g].namespace,
                        Range(AddedIcons(namespaceGroups[g])))

\* the sprite file of a namespace has the symbol of the icon
InSpriteOf(namespace, icon) ==
    \E file \in publicDir :
        file.name = spriteFileName(namespace) /\ Symbol(icon) \in Range(file.symbols)

\* C12: files with equal icon names in different namespaces are never
\* reported as duplicates of each other, the duplicate error is raised only
\* when two files of one namespace collide, and after a successful build each
\* of the two that was added is in the sprite file of its own namespace.
C12_SameNameAcrossNamespaces ==
    /\ error = "duplicate" => HasDuplicates
    /\ \A r \in report : \A i, j \in DOMAIN allSvgFiles :
          (allSvgFiles[i].originalName \in Range(r.files)
              /\ allSvgFiles[j].originalName \in Range(r.files)) =>
                 SplitName(allSvgFiles[i].name) = SplitName(allSvgFiles[j].name)
    /\ pc = "done" =>
          \A g, h \in DOMAIN namespaceGroups :
            \A a \in Range(AddedIcons(namespaceGroups[g])) :
              \A b \in Range(AddedIcons(namespaceGroups[h])) :
                 (g # h /\ a.iconName = b.iconName) =>
                    /\ InSpriteOf(namespaceGroups[g].namespace, a)
                    /\ InSpriteOf(namespaceGroups[h].namespace, b)

----------------------------------------------------------------------------
(* Properties of normalizeIconName *)

\* C13: normalizing the result of normalizeIconName returns that same result.
C13_Idempotent ==
    nameAgain.status # "none" =>
        nameAgain.status = "returned" /\ nameAgain.value = nameOut.value

SunMoon == <<"s", "u", "n", "-", "m", "o", "o", "n">>

IsKebab(name) ==
    /\ \A i \in DOMAIN name :
          /\ ~IsUpper(name[i])
          /\ name[i] \notin Whitespace \cup {"_"}
          /\ (i < Len(name) /\ name[i] = "-") => name[i + 1] # "-"
    /\ name # <<>> => name[1] # "-" /\ name[Len(name)] # "-"

\* C15: normalizeIconName collapses whitespace, turns whitespace into
\* hyphens, puts a hyphen between a lowercase letter or digit and a following
\* uppercase letter, turns underscores into hyphens, lowercases, collapses
\* hyphen runs and strips the outer hyphens, in this order: sunMoon, SunMoon,
\* sun_moon, 'sun moon', 'sun  moon' and sun-moon all give sun-moon, a result
\* has no uppercase letter, whitespace, underscore, hyphen run or outer
\* hyphen, and a lowercase letter or digit followed by an uppercase letter
\* in a name of letters and digits comes out with a hyphen between them.
C15_NormalizationSteps ==
    nameOut.status = "returned" =>
        /\ nameIn \in Examples => nameOut.value = SunMoon
        /\ IsKebab(nameOut.value)
        /\ \A i \in 1..(Len(nameIn) - 1) :
              ((IsLower(nameIn[i]) \/ nameIn[i] \in Digits) /\ IsUpper(nameIn[i + 1])
                  /\ \A k \in DOMAIN nameIn : nameIn[k] \notin {"_", "-", " "}) =>
                 /\ nameOut.value[i + Cardinality({k \in 1..i :
                        (IsLower(nameIn[k]) \/ nameIn[k] \in Digits)
                            /\ IsUpper(nameIn[k + 1])})] = "-"

\* 'sun  moon', with its run of two spaces, has been normalized to sun-moon
C15_Witness ==
    /\ nameIn = <<"s", "u", "n", " ", " ", "m", "o", "o", "n">>
    /\ nameOut = [status |-> "returned", value |-> SunMoon]

----------------------------------------------------------------------------
(* Properties of the scanner *)

\* /^[a-z0-9-]+(?::[a-z0-9-]+)*$/
isValidIconName(name) ==
    /\ name # <<>>
    /\ \A i \in DOMAIN name :
          IsLower(name[i]) \/ name[i] \in Digits \cup {"-", ":"}
    /\ name[1] # ":" /\ name[Len(name)] # ":"
    /\ \A i \in 1..(Len(name) - 1) : ~(name[i] = ":" /\ name[i + 1] = ":")

\* no colon-separated segment starts or ends with a hyphen
NoOuterHyphens(name) ==
    /\ name # <<>> => name[1] # "-" /\ name[Len(name)] # "-"
    /\ \A i \in 1..(Len(name) - 1) :
          ~(name[i] = ":" /\ name[i + 1] = "-") /\ ~(name[i] = "-" /\ name[i + 1] = ":")

\* C14: every entry returned by the scanner has a full name that is
\* non-empty, made of lowercase ASCII letters, digits, hyphens and colons
\* only, with no empty segment between colons and no segment starting or
\* ending with a hyphen.
C14_ScannedNamesValid ==
    \A i \in DOMAIN allSvgFiles :
        isValidIconName(allSvgFiles[i].name) /\ NoOuterHyphens(allSvgFiles[i].name)

----------------------------------------------------------------------------
(* Properties of the type listing *)

\* the names pushed by the step from this state to the next
PushedNames == SubSeq(allIconNames', Len(allIconNames) + 1, Len(allIconNames'))

\* C16: a build that completes has written the type listing; the listing
\* has IconName as never and an empty iconNames when no icon was added to a
\* sprite, and otherwise the union and iconNames both list exactly the names
\* pushed during assembly; and the names pushed while a namespace is
\* assembled are, one for one, the full names of the icons whose symbols went
\* into the sprite written for it.
C16_TypeListing ==
    /\ [](pc = "done" => typesFile.exists)
    /\ [](typesFile.exists =>
            /\ typesFile.iconNames = allIconNames
            /\ typesFile.never <=> allIconNames = <<>>
            /\ ~typesFile.never => typesFile.union = typesFile.iconNames)
    /\ [][(BuildWriteSprite /\ pc' # "failed") =>
            LET group == namespaceGroups[nsDone + 1]
                file == CHOOSE f \in publicDir' :
                            f.name = spriteFileName(group.namespace)
            IN  /\ Len(PushedNames) = Len(file.symbols)
                /\ \A i \in DOMAIN PushedNames :
                      \E icon \in Range(group.icons) :
                          /\ icon.fullName = PushedNames[i]
                          /\ Symbol(icon) = file.symbols[i]]_vars

\* a build whose only icon could not be added has completed: its sprite is
\* empty and the listing declares never
C16_Witness ==
    /\ pc = "done"
    /\ Len(allSvgFiles) = 1
    /\ typesFile.exists /\ typesFile.never /\ typesFile.iconNames = <<>>
    /\ \E file \in publicDir : file.symbols = <<>>

----------------------------------------------------------------------------
(* Properties of the empty build *)

RECURSIVE HasSvgFile(_)
HasSvgFile(entries) ==
    \E i \in DOMAIN entries :
        IF entries[i].kind = "dir"
        THEN HasSvgFile(entries[i].entries)
        ELSE EndsWith(toLowerCase(entries[i].name), DotSvg)

NothingToScan == ~svgDirExists \/ ~HasSvgFile(tree)

EmptyListing == [exists |-> TRUE, never |-> TRUE, union |-> <<>>, iconNames |-> <<>>]

\* C17: when the source directory is missing or holds no SVG file the scan
\* returns the empty list, and the step after it writes the empty default
\* sprite and the empty type listing and returns without error (the two
\* files being writable); the build never raises an error of its own, and
\* the source tree is left alone.
C17_EmptySourceNotFatal ==
    /\ [][(BuildScan /\ NothingToScan) => allSvgFiles' = <<>>]_vars
    /\ [][(pc = "scanned" /\ NothingToScan /\ pc' # "failed") =>
            /\ pc' = "done" /\ error' = ""
            /\ publicDir' = {[name |-> DefaultSpriteName, symbols |-> <<>>]}
            /\ typesFile' = EmptyListing
            /\ tree' = tree]_vars
    /\ [](NothingToScan => error \in {"", "write"} /\ report = {} /\ renamed = {})

\* a build without a source directory has completed with the two files
C17_Witness ==
    /\ ~svgDirExists
    /\ pc = "done" /\ error = ""
    /\ publicDir = {[name |-> DefaultSpriteName, symbols |-> <<>>]}
    /\ typesFile = EmptyListing

----------------------------------------------------------------------------
(* Properties of the grouping *)

RECURSIVE JoinNormalized(_)
JoinNormalized(folders) ==
    IF Len(folders) = 1 THEN normalizeIconName(folders[1])
    ELSE normalizeIconName(folders[1]) \o <<":">> \o JoinNormalized(Tail(folders))

\* the normalized ancestor folder names of a scanned file joined with ':'
FolderChain(file) ==
    IF Len(file.path) = 1 THEN DEFAULT_NAMESPACE
    ELSE JoinNormalized(DirName(file.path))

\* the normalized file name alone
FileIconId(file) ==
    SubSeq(file.name, LastIndexOf(file.name, ":") + 1, Len(file.name))

\* C18: every icon is grouped under the namespace made of all its normalized
\* ancestor folder names joined with ':' ('default' at the root) with its
\* normalized file name as icon id, at any depth, and every symbol in a
\* sprite file has that icon id and lies in the file of that namespace.
C18_GroupedByFolderChain ==
    /\ \A g \in DOMAIN namespaceGroups :
          \A icon \in Range(namespaceGroups[g].icons) :
              /\ namespaceGroups[g].namespace = FolderChain(icon)
              /\ icon.iconName = FileIconId(icon)
    /\ \A file \in publicDir : \A symbol \in Range(file.symbols) :
          \A i \in DOMAIN allSvgFiles :
              allSvgFiles[i].originalName = symbol.source =>
                 /\ symbol.id = FileIconId(allSvgFiles[i])
                 /\ file.name = spriteFileName(FolderChain(allSvgFiles[i]))

----------------------------------------------------------------------------
(* Properties of a failing write *)

\* C19 as stated: a sprite file that cannot be written costs its namespace
\* only: the build stays in its loop and goes on with the next namespace.
C19_WriteFailureSkipsNamespace ==
    [][BuildWriteSprite => (pc' = "sprites" /\ nsDone' = nsDone + 1)]_vars

\* C19 amended: a sprite file that cannot be written fails the whole build:
\* the error is rethrown, the build stops at that namespace, the sprites of
\* the namespaces after it and the type listing are not written, and the
\* sprite files written before it stay.
C19_WriteFailureFatal ==
    /\ [][(BuildWriteSprite /\ error' = "write") =>
            /\ pc' = "failed"
            /\ nsDone' = nsDone
            /\ publicDir' = publicDir
            /\ typesFile' = typesFile]_vars
    /\ [](error = "write" =>
            /\ pc = "failed"
            /\ ~typesFile.exists
            /\ \A file \in publicDir :
                  \/ \E g \in 1..nsDone :
                        file.name = spriteFileName(namespaceGroups[g].namespace)
                  \/ namespaceGroups = <<>>)
    /\ [][pc = "failed" => pc' = "failed"]_vars

\* the first of two namespaces could not be written: the build has failed
\* and the second namespace has no sprite
C19_Witness ==
    /\ pc = "failed" /\ error = "write"
    /\ Len(namespaceGroups) = 2 /\ nsDone = 0
    /\ publicDir = {}

----------------------------------------------------------------------------
(* Properties of a failing icon *)

\* the icons left when the one at position failed (0: none) is taken out
AllBut(icons, failed) ==
    [i \in 1..(Len(icons) - (IF failed = 0 THEN 0 ELSE 1)) |->
        icons[IF failed = 0 \/ i < failed THEN i ELSE i + 1]]

\* C20: when an icon cannot be read or added while its namespace is
\* assembled, the sprite written for the namespace holds the symbols of all
\* its other icons, in order, and the names pushed for the type listing are
\* those of the same icons; the build raises no error, goes on with the next
\* namespace, and a completed build has no error.
C20_IconFailureSkipsIcon ==
    /\ [][(BuildWriteSprite /\ error' # "write") =>
            LET group == namespaceGroups[nsDone + 1]
                file == CHOOSE f \in publicDir' :
                            f.name = spriteFileName(group.namespace)
            IN  /\ pc' = "sprites" /\ nsDone' = nsDone + 1 /\ error' = ""
                /\ \E failed \in 0..Len(group.icons) :
                      LET rest == AllBut(group.icons, failed)
                      IN  /\ file.symbols = [i \in DOMAIN rest |-> Symbol(rest[i])]
                          /\ PushedNames = [i \in DOMAIN rest |-> rest[i].fullName]]_vars
    /\ [](pc = "done" => error = "" /\ typesFile.iconNames = allIconNames)

\* a build of two namespaces has completed with one icon of the second
\* namespace left out of its sprite and of the listing
C20_Witness ==
    /\ pc = "done" /\ error = ""
    /\ Len(namespaceGroups) = 2
    /\ Len(namespaceGroups[2].icons) = 2
    /\ Len(typesFile.iconNames) = Len(allSvgFiles) - 1
    /\ \E file \in publicDir :
          /\ file.name = spriteFileName(namespaceGroups[2].namespace)
          /\ Len(file.symbols) = 1
    /\ \E file \in publicDir :
          /\ file.name = spriteFileName(namespaceGroups[1].namespace)
          /\ Len(file.symbols) = Len(namespaceGroups[1].icons)
          /\ file.name # spriteFileName(namespaceGroups[2].namespace)

----------------------------------------------------------------------------
(* Properties of the listing order *)

\* position of a name in the scan
ScanIndex(name) == CHOOSE i \in DOMAIN allSvgFiles : allSvgFiles[i].name = name

\* C21: the names of the type listing, in the union and in iconNames, stand
\* in the order in which the scanner returned their files.
C21_ListingInDiscoveryOrder ==
    (typesFile.exists /\ pc = "done") =>
        /\ typesFile.union = typesFile.iconNames
        /\ \A i, j \in DOMAIN typesFile.iconNames :
              i < j => ScanIndex(typesFile.iconNames[i]) < ScanIndex(typesFile.iconNames[j])

----------------------------------------------------------------------------
(* Properties of a loaded namespace *)

\* the in-memory entry is of the current version with non-empty content
Loaded(ns) ==
    LET cached == spriteCache[ns]
    IN  /\ cached.present /\ cached.promise = NoPromise
        /\ cached.version = SPRITE_VERSION /\ Truthy(cached.content)

\* the containers of a namespace among the children of document.body
ContainersOf(children, ns) == {i \in DOMAIN children : children[i] = ns}

\* C22: a loadSprite call for a loaded namespace issues no fetch and leaves
\* the in-memory cache, session storage and the document as they were, the
\* document still holding exactly one container of the namespace.
C22_LoadedCallChangesNothing ==
    [][\A c \in CallIds : \A ns \in Namespaces :
          (Loaded(ns) /\ loadSprite(c, ns)) =>
              /\ fetches' = fetches
              /\ spriteCache' = spriteCache
              /\ sessionStorage' = sessionStorage
              /\ sessionStorageKeys' = sessionStorageKeys
              /\ containers' = containers
              /\ body' = body
              /\ Cardinality(ContainersOf(body', ns)) = 1]_vars

----------------------------------------------------------------------------
(* Namespaces are independent of one another *)

\* what the loader and the document hold for one namespace
StateOf(ns) ==
    [entry |-> spriteCache[ns],
     item |-> sessionStorage[getCacheKey(ns)],
     inflight |-> InFlight(ns),
     container |-> containers[ns],
     inDocument |-> ContainersOf(body, ns) # {}]

\* a step made on behalf of one namespace
StepFor(ns) ==
    \/ \E c \in CallIds : loadSprite(c, ns)
    \/ \E f \in FetchIds : \E response \in Responses(ns) :
          fetches[f].ns = ns /\ FetchSettles(f, response)

\* C23: a loadSprite call, a fetch completion or a fetch failure for one
\* namespace leaves the in-memory entry, the session-storage entry, the
\* in-flight fetches and the container of every other namespace as they were.
C23_OtherNamespacesUntouched ==
    [][\A ns \in Namespaces :
          StepFor(ns) =>
              \A other \in Namespaces \ {ns} : StateOf(other)' = StateOf(other)]_vars

\* a fetch for default failed while social was loaded and injected
C23_Witness ==
    /\ lastOp = [op |-> "respond", via |-> "failed"]
    /\ Loaded("social")
    /\ containers["social"] = Sprite("social")
    /\ \E f \in FetchIds : fetches[f].ns = "default" /\ fetches[f].status = "rejected"
    /\ \A f \in FetchIds : fetches[f].ns = "social" => fetches[f].status = "resolved"

----------------------------------------------------------------------------
(* Properties of the plugin *)

\* C24: however often the webpack hook runs in one process, for client or
\* server, development or production, with the generation succeeding or
\* failing, at most one file watcher is registered.
C24_AtMostOneWatcher == watchers <= 1

\* the hook has run MaxHookRuns times, the last run a client development
\* run that generated the sprites and found the watcher already set up
C24_Witness ==
    /\ watchers = 1
    /\ hookRuns = MaxHookRuns
    /\ hookLog = [isServer |-> FALSE, dev |-> TRUE, did |-> "generated"]

----------------------------------------------------------------------------
(* Properties of the sprite file names *)

\* C25: within one build the sprite files of distinct namespaces have
\* distinct names, so no namespace is written over another's file.
C25_DistinctSpriteFiles ==
    \A g, h \in DOMAIN namespaceGroups :
        namespaceGroups[g].namespace # namespaceGroups[h].namespace =>
            spriteFileName(namespaceGroups[g].namespace)
                # spriteFileName(namespaceGroups[h].namespace)

----------------------------------------------------------------------------
(* IconDynamic: the reference it renders and what the document makes of it *)

N_plus == <<"p", "l", "u", "s">>
N_social == <<"s", "o", "c", "i", "a", "l">>

\* the loader's namespace strings, letter by letter
Chars(ns) == IF ns = "default" THEN DEFAULT_NAMESPACE ELSE N_social

\* IconDynamic.tsx parseIconName: split at the first colon
parseIconName(name) ==
    LET colonIndex == IndexOf(name, ":") - 1
    IN  IF colonIndex > 0
        THEN [namespace |-> SubSeq(name, 1, colonIndex),
              iconId |-> SubSeq(name, colonIndex + 2, Len(name))]
        ELSE [namespace |-> DEFAULT_NAMESPACE, iconId |-> name]

\* the icons plus and social:plus; the build gives both symbols the id plus
DynamicIconNames == {N_plus, N_social \o <<":">> \o N_plus}

\* the symbols of a sprite document: the sprite of every namespace holds one
\* symbol whose id is plus
SymbolsOf(content) ==
    LET at == {i \in DOMAIN content : content[i] \in Namespaces}
    IN  {[id |-> N_plus, sprite |-> content[i]] : i \in at}

\* <use href="#id">: the first element of the document that carries the id
ResolveUse(id) ==
    LET hits == {i \in DOMAIN body :
                    \E sym \in SymbolsOf(containers[body[i]]) : sym.id = id}
    IN  IF hits = {} THEN "none"
        ELSE LET first == CHOOSE i \in hits : \A j \in hits : i <= j
             IN  (CHOOSE sym \in SymbolsOf(containers[body[first]]) : sym.id = id).sprite

\* IconDynamic shows the reference once loadSprite(namespace) has resolved
Rendered(name) ==
    \E c \in CallIds :
        /\ calls[c].state = "resolved"
        /\ Chars(calls[c].ns) = parseIconName(name).namespace

\* C26: the reference IconDynamic renders for an icon resolves to the symbol
\* of the sprite of the icon's own namespace, also when the sprite of another
\* namespace with a symbol of the same id is in the document.
C26_ReferenceResolvesToOwnSprite ==
    \A name \in DynamicIconNames : \A ns \in Namespaces :
        (/\ Rendered(name)
         /\ Chars(ns) = parseIconName(name).namespace
         /\ \E sym \in SymbolsOf(containers[ns]) : sym.id = parseIconName(name).iconId)
            => ResolveUse(parseIconName(name).iconId) = ns

----------------------------------------------------------------------------
(* The components and the route against the build *)

RootUrl == <<"/icons">>
NamespaceUrl(namespace) == <<"/icons", namespace>>

\* Icon.tsx parseSpriteUrl: the URL and the fragment of <use href>
parseSpriteUrl(name) ==
    LET colonIndex == IndexOf(name, ":") - 1
    IN  IF colonIndex > 0
        THEN [spriteUrl |-> NamespaceUrl(SubSeq(name, 1, colonIndex)),
              iconId |-> SubSeq(name, colonIndex + 2, Len(name))]
        ELSE [spriteUrl |-> RootUrl, iconId |-> name]

\* fetchSpriteFromServer: the URL the loader asks for
fetchUrl(namespace) ==
    IF namespace = DEFAULT_NAMESPACE THEN RootUrl ELSE NamespaceUrl(namespace)

\* the file under public/ that the route handler of a URL reads
servedFileName(url) ==
    IF url = RootUrl THEN DefaultSpriteName ELSE IconsPrefix \o url[2] \o DotSvg

\* the icon of the build that the listing calls by this name
BuiltIcons(name) ==
    {icon \in UNION {Range(AddedIcons(namespaceGroups[g])) : g \in DOMAIN namespaceGroups} :
        icon.fullName = name}

\* the route answers the URL from a sprite that holds the icon under the id
Serves(url, iconId, icon) ==
    \E file \in publicDir :
        /\ file.name = servedFileName(url)
        /\ Symbol(icon) \in Range(file.symbols)
        /\ icon.iconName = iconId

\* C27: for every name of the type listing Icon and IconDynamic derive the
\* namespace and icon id the build used, and the URL each of them requests
\* is answered from the file the build wrote for the namespace, which holds
\* the icon's symbol.
C27_ComponentsAgreeWithBuild ==
    (pc = "done" /\ typesFile.exists) =>
        \A i \in DOMAIN typesFile.iconNames :
            LET name == typesFile.iconNames[i]
                built == SplitName(name)
                static == parseSpriteUrl(name)
                dyn == parseIconName(name)
            IN  /\ dyn.namespace = built.namespace
                /\ dyn.iconId = built.iconName
                /\ static.iconId = built.iconName
                /\ servedFileName(static.spriteUrl) = spriteFileName(built.namespace)
                /\ servedFileName(fetchUrl(dyn.namespace)) = spriteFileName(built.namespace)
                /\ \A icon \in BuiltIcons(name) :
                      /\ Serves(static.spriteUrl, static.iconId, icon)
                      /\ Serves(fetchUrl(dyn.namespace), dyn.iconId, icon)

----------------------------------------------------------------------------
(* Properties of a loaded entry over time *)

\* C28: a loaded entry stays loaded until clearSpriteCache is called (or the
\* page is left); in particular the failure of an older fetch, issued before
\* an intervening clearSpriteCache, neither deletes nor replaces it.
C28_LoadedUntilCleared ==
    [][\A ns \in Namespaces :
          (Loaded(ns) /\ lastOp'.op \notin {"clear", "reload"}) =>
              /\ Loaded(ns)'
              /\ (lastOp' = [op |-> "respond", via |-> "failed"] =>
                     spriteCache'[ns] = spriteCache[ns])]_vars

----------------------------------------------------------------------------
(* Properties of the output directory over several builds *)

\* the namespaces of the current source tree, as the build grouped them
CurrentNamespaces == {namespaceGroups[g].namespace : g \in DOMAIN namespaceGroups}

\* a sprite file that belongs to no namespace of the current tree; the empty
\* default sprite, as written for a tree without icons, is not counted
Stale(file) ==
    /\ file.name \notin {spriteFileName(ns) : ns \in CurrentNamespaces}
    /\ file # [name |-> DefaultSpriteName, symbols |-> <<>>]

\* C29: after every successful build the sprite files of the output
\* directory are exactly those of the namespaces of the current source tree,
\* over any sequence of builds with icons or folders added or removed.
C29_NoStaleSprites ==
    pc = "done" =>
        /\ \A ns \in CurrentNamespaces : \E file \in publicDir : file.name = spriteFileName(ns)
        /\ \A file \in publicDir : ~Stale(file)

----------------------------------------------------------------------------
(* Progress of the calls *)

\* C30: provided every issued fetch completes or fails, every loadSprite call
\* that awaits a load resolves or rejects, whatever loadSprite and
\* clearSpriteCache calls come in between; the calls of a preloadSprites
\* batch being finitely many, the batch settles too.
C30_EveryCallSettles ==
    /\ \A c \in CallIds : (calls[c].state = "waiting") ~> Settled(c)
    /\ <>[](\A c \in CallIds : calls[c].state # "waiting")

\* two calls for one namespace awaited different fetches, a clearSpriteCache
\* having come between them, and both have settled
C30_Witness ==
    /\ \A c \in CallIds : Settled(c) /\ calls[c].promise # NoPromise
    /\ calls[1].ns = calls[2].ns
    /\ calls[1].promise # calls[2].promise
    /\ lastOp.op = "settle"

====
